---------------------------- MODULE Spec2Model ----------------------------
(***************************************************************************)
(* Model of the message-format translator of src/api/transform/            *)
(* openai-format.ts: convertToOpenAiMessages (Anthropic message list ->    *)
(* OpenAI chat messages) and convertToAnthropicMessage (OpenAI completion  *)
(* -> Anthropic message), and of the state of the EmbeddingOptions         *)
(* component of webview-ui/src/components/settings/EmbeddingOptions.tsx:   *)
(* its configuration edits, its effects and the validation round trip.     *)
(*                                                                         *)
(* Data encoding.  A JavaScript object is a record; an optional property   *)
(* that is undefined (or null on the input side) is a field missing from   *)
(* the record.  A value that is "string | array" in the TypeScript types   *)
(* is wrapped: [string |-> s] or [array |-> seq], so that typeof is the    *)
(* test "string" \in DOMAIN v.  Strings are TLA+ strings and template      *)
(* literals / join are real concatenation (\o).                            *)
(***************************************************************************)
EXTENDS Integers, Sequences, FiniteSets, TLC

VARIABLES
    pc,                 \* which call is pending or has returned
    anthropicMessages,  \* argument of convertToOpenAiMessages
    openAiMessages,     \* value returned by convertToOpenAiMessages
    completion,         \* argument of convertToAnthropicMessage
    anthropicMessage,   \* value returned by convertToAnthropicMessage
    console,            \* console.error entries written so far
    history,            \* calls made so far: <<function, argument, result>>
    embeddingConfiguration, \* the embedding configuration of the extension state
    isEmbeddingValid,   \* useState<boolean | null>: "null", "false" or "true"
    isLoading,          \* useState(false)
    validateDue,        \* the effect on [embeddingConfiguration] is to run
    writeBackDeps,      \* [selectedModelId, selectedProvider] at the last run
                        \* of the write-back effect
    posted,             \* messages posted to the extension, oldest first
    answered            \* embeddingValidation messages delivered so far

translatorVars ==
    <<pc, anthropicMessages, openAiMessages, completion, anthropicMessage,
      console, history>>

componentVars ==
    <<embeddingConfiguration, isEmbeddingValid, isLoading, validateDue,
      writeBackDeps, posted, answered>>

vars == <<translatorVars, componentVars>>

----------------------------------------------------------------------------
(* Bounds of the model *)

\* total size of an input message list: one per turn plus one per block
MaxSize == 5
\* number of tool calls carried by a completion message
MaxToolCalls == 2
\* number of translator calls in a row in the repeated-call specification
MaxCalls == 3
\* number of messages the EmbeddingOptions component posts to the extension
MaxPosts == 3

----------------------------------------------------------------------------
(* JavaScript values *)

\* the JavaScript null of an output field; no input string equals it
null == "<null>"

Str(s) == [string |-> s]
Arr(a) == [array |-> a]
typeofString(v) == "string" \in DOMAIN v

\* Array.prototype.join
RECURSIVE join(_, _)
join(strs, sep) ==
    IF Len(strs) = 0 THEN ""
    ELSE IF Len(strs) = 1 THEN strs[1]
    ELSE strs[1] \o sep \o join(Tail(strs), sep)

----------------------------------------------------------------------------
(* JSON values: [object |-> members], [str |-> s], [number |-> n];         *)
(* members is a sequence of [key, value]                                   *)

EmptyObject == [object |-> <<>>]

RECURSIVE JSONstringify(_)
JSONstringify(v) ==
    IF "object" \in DOMAIN v
    THEN "{" \o join([i \in 1..Len(v.object) |->
                        "\"" \o v.object[i].key \o "\":"
                            \o JSONstringify(v.object[i].value)], ",") \o "}"
    ELSE IF "str" \in DOMAIN v THEN "\"" \o v.str \o "\""
    ELSE ToString(v.number)

JsonValues ==
    { EmptyObject,
      [object |-> <<[key |-> "path", value |-> [str |-> "a"]]>>],
      [object |-> <<[key |-> "path", value |-> [str |-> "a"]],
                    [key |-> "n", value |-> [number |-> 1]]>>],
      [object |-> <<[key |-> "o", value |-> EmptyObject]>>],
      [str |-> "a"],
      [number |-> 1] }

\* JSON.parse over the texts of JsonValues; any other text is a SyntaxError
JSONparseThrows(text) == \A v \in JsonValues : JSONstringify(v) # text
JSONparse(text) == CHOOSE v \in JsonValues : JSONstringify(v) = text

----------------------------------------------------------------------------
(* openai-format.ts, lines 4-28 *)

isImageBlock(block) == block.type = "image"

isTextBlock(block) == block.type = "text"

\* line 17 without the data: URI around the payload
getImageUrlBareData(part) ==
    IF part.source.type = "base64"
    THEN [type |-> "image_url", image_url |-> [url |-> part.source.data]]
    ELSE [type |-> "image_url", image_url |-> [url |-> part.source.url]]

getImageUrl(part) ==
    IF part.source.type = "base64"
    THEN [type |-> "image_url",
          image_url |-> [url |-> "data:" \o part.source.media_type
                                     \o ";base64," \o part.source.data]]
    ELSE [type |-> "image_url", image_url |-> [url |-> part.source.url]]

----------------------------------------------------------------------------
(* convertToOpenAiMessages, user turn with block content (lines 42-111) *)

\* lines 43-56: content.reduce over the turn's blocks
RECURSIVE userReduce(_, _, _)
userReduce(content, i, acc) ==
    IF i > Len(content) THEN acc
    ELSE LET part == content[i] IN
         userReduce(content, i + 1,
            IF part.type = "tool_result"
            THEN [acc EXCEPT !.toolMessages = Append(@, part)]
            ELSE IF isTextBlock(part) \/ isImageBlock(part)
            THEN [acc EXCEPT !.nonToolMessages = Append(@, part)]
            ELSE acc)

\* lines 68-74: the callback mapped over a tool result's parts
toolResultPart(part) ==
    IF isImageBlock(part) THEN "(see following user message for image)"
    ELSE part.text

\* lines 61-76: the string content of one tool result
toolResultContent(toolMessage) ==
    IF "content" \in DOMAIN toolMessage /\ typeofString(toolMessage.content)
    THEN toolMessage.content.string
    ELSE IF "content" \in DOMAIN toolMessage
    THEN LET parts == toolMessage.content.array IN
         join([i \in 1..Len(parts) |-> toolResultPart(parts[i])], "\n")
    ELSE ""

\* lines 77-81: the turn pushed for one tool result
toolTurn(toolMessage) ==
    [role |-> "tool",
     tool_call_id |-> toolMessage.tool_use_id,
     content |-> Str(toolResultContent(toolMessage))]

\* lines 104-109: the callback mapped over the text/image blocks
userPart(part) ==
    IF isImageBlock(part) THEN getImageUrl(part)
    ELSE [type |-> "text", text |-> part.text]

\* lines 101-111: the user turn pushed for the text/image blocks, if any
userContentTurns(nonToolMessages) ==
    IF Len(nonToolMessages) > 0
    THEN << [role |-> "user",
             content |-> Arr([i \in 1..Len(nonToolMessages) |->
                                userPart(nonToolMessages[i])])] >>
    ELSE << >>

\* the same turns pushed in the opposite order: user content before tool results
userTurnsContentFirst(acc) ==
    userContentTurns(acc.nonToolMessages)
        \o [i \in 1..Len(acc.toolMessages) |-> toolTurn(acc.toolMessages[i])]

\* lines 59 and 69-70: the images met while the tool results are flattened
RECURSIVE toolResultImages(_)
toolResultImages(toolMessages) ==
    IF Len(toolMessages) = 0 THEN << >>
    ELSE (IF "content" \in DOMAIN toolMessages[1]
                /\ ~typeofString(toolMessages[1].content)
          THEN SelectSeq(toolMessages[1].content.array, isImageBlock)
          ELSE << >>) \o toolResultImages(Tail(toolMessages))

\* lines 58-111 with lines 90-98 in force: the collected images are sent as a
\* user turn of their own after the tool turns
userTurnsWithToolResultImages(acc) ==
    [i \in 1..Len(acc.toolMessages) |-> toolTurn(acc.toolMessages[i])]
        \o (IF Len(toolResultImages(acc.toolMessages)) > 0
            THEN << [role |-> "user",
                     content |-> Arr([i \in 1..Len(toolResultImages(acc.toolMessages)) |->
                                        getImageUrl(toolResultImages(acc.toolMessages)[i])])] >>
            ELSE << >>)
        \o userContentTurns(acc.nonToolMessages)

\* lines 58-111: tool results first (forEach push), then the user content
userTurns(acc) ==
    [i \in 1..Len(acc.toolMessages) |-> toolTurn(acc.toolMessages[i])]
        \o userContentTurns(acc.nonToolMessages)

convertUserMessage(anthropicMsg) ==
    userTurns(userReduce(anthropicMsg.content.array, 1,
                         [nonToolMessages |-> << >>, toolMessages |-> << >>]))

----------------------------------------------------------------------------
(* convertToOpenAiMessages, assistant turn with block content (112-157) *)

\* lines 113-126
RECURSIVE assistantReduce(_, _, _)
assistantReduce(content, i, acc) ==
    IF i > Len(content) THEN acc
    ELSE LET part == content[i] IN
         assistantReduce(content, i + 1,
            IF part.type = "tool_use"
            THEN [acc EXCEPT !.toolMessages = Append(@, part)]
            ELSE IF isTextBlock(part) \/ isImageBlock(part)
            THEN [acc EXCEPT !.nonToolMessages = Append(@, part)]
            ELSE acc)

\* lines 132-137
assistantPart(part) == IF isImageBlock(part) THEN "" ELSE part.text

\* line 143 taking the tool's name for the call id
toolCallOfNameAsId(toolMessage) ==
    [id |-> toolMessage.name,
     type |-> "function",
     function |-> [name |-> toolMessage.name,
                   arguments |-> JSONstringify(toolMessage.input)]]

\* lines 142-149: one tool call per tool_use block
toolCallOf(toolMessage) ==
    [id |-> toolMessage.id,
     type |-> "function",
     function |-> [name |-> toolMessage.name,
                   arguments |-> JSONstringify(toolMessage.input)]]

\* line 155 without its length test: tool_calls is set whatever its length
assistantTurnAlwaysToolCalls(acc) ==
    LET tool_calls == [i \in 1..Len(acc.toolMessages) |->
                          toolCallOf(acc.toolMessages[i])]
        texts      == [i \in 1..Len(acc.nonToolMessages) |->
                          assistantPart(acc.nonToolMessages[i])]
    IN
    IF Len(acc.nonToolMessages) > 0
    THEN [role |-> "assistant",
          content |-> Str(join(texts, "\n")),
          tool_calls |-> tool_calls]
    ELSE [role |-> "assistant", tool_calls |-> tool_calls]

\* lines 129-139 with content initialised to "": it is never undefined
assistantTurnContentNeverAbsent(acc) ==
    LET tool_calls == [i \in 1..Len(acc.toolMessages) |->
                          toolCallOf(acc.toolMessages[i])]
        texts      == [i \in 1..Len(acc.nonToolMessages) |->
                          assistantPart(acc.nonToolMessages[i])]
    IN  IF Len(tool_calls) > 0
        THEN [role |-> "assistant", content |-> Str(join(texts, "\n")),
              tool_calls |-> tool_calls]
        ELSE [role |-> "assistant", content |-> Str(join(texts, "\n"))]

\* lines 128-156: content is undefined without text/image blocks, tool_calls
\* is undefined when empty
assistantTurn(acc) ==
    LET tool_calls == [i \in 1..Len(acc.toolMessages) |->
                          toolCallOf(acc.toolMessages[i])]
        hasContent == Len(acc.nonToolMessages) > 0
        texts      == [i \in 1..Len(acc.nonToolMessages) |->
                          assistantPart(acc.nonToolMessages[i])]
        content    == Str(join(texts, "\n"))
    IN  IF hasContent /\ Len(tool_calls) > 0
        THEN [role |-> "assistant", content |-> content, tool_calls |-> tool_calls]
        ELSE IF hasContent
        THEN [role |-> "assistant", content |-> content]
        ELSE IF Len(tool_calls) > 0
        THEN [role |-> "assistant", tool_calls |-> tool_calls]
        ELSE [role |-> "assistant"]

convertAssistantMessage(anthropicMsg) ==
    << assistantTurn(assistantReduce(anthropicMsg.content.array, 1,
                        [nonToolMessages |-> << >>, toolMessages |-> << >>])) >>

----------------------------------------------------------------------------
(* convertToOpenAiMessages (lines 30-162) *)

\* lines 37-40 with the role fixed instead of copied
stringTurnAsUser(anthropicMsg) ==
    << [role |-> "user", content |-> Str(anthropicMsg.content.string)] >>

\* lines 36-40: a string content is pushed with its role, unchanged
stringTurn(anthropicMsg) ==
    << [role |-> anthropicMsg.role, content |-> Str(anthropicMsg.content.string)] >>

\* lines 36-158: the turns pushed for one input turn
convertMessage(anthropicMsg) ==
    IF typeofString(anthropicMsg.content) THEN stringTurn(anthropicMsg)
    ELSE IF anthropicMsg.role = "user" THEN convertUserMessage(anthropicMsg)
    ELSE IF anthropicMsg.role = "assistant" THEN convertAssistantMessage(anthropicMsg)
    ELSE << >>

\* lines 35-159: the for loop, pushing onto the accumulator
RECURSIVE convertLoop(_, _, _)
convertLoop(msgs, i, acc) ==
    IF i > Len(msgs) THEN acc
    ELSE convertLoop(msgs, i + 1, acc \o convertMessage(msgs[i]))

\* line 33 hoisted out of the function: the array of the previous call
sharedOpenAiMessages(previous) == previous

\* line 33: the accumulator is a new empty array in every call
newOpenAiMessages(previous) == << >>

convertToOpenAiMessages(msgs, previous) ==
    convertLoop(msgs, 1, newOpenAiMessages(previous))

----------------------------------------------------------------------------
(* convertToAnthropicMessage (lines 165-220) *)

\* line 174: openAiMessage.content || ""
messageText(openAiMessage) ==
    IF "content" \in DOMAIN openAiMessage /\ openAiMessage.content # ""
    THEN openAiMessage.content
    ELSE ""

\* lines 179-191 without the "tool_calls" case
stopReasonNoToolUse(choice) ==
    IF "finish_reason" \notin DOMAIN choice THEN null
    ELSE CASE choice.finish_reason = "stop" -> "end_turn"
           [] choice.finish_reason = "length" -> "max_tokens"
           [] OTHER -> null

\* lines 179-191: the switch on the first choice's finish_reason
stopReason(choice) ==
    IF "finish_reason" \notin DOMAIN choice THEN null
    ELSE CASE choice.finish_reason = "stop" -> "end_turn"
           [] choice.finish_reason = "length" -> "max_tokens"
           [] choice.finish_reason = "tool_calls" -> "tool_use"
           [] choice.finish_reason = "content_filter" -> null
           [] OTHER -> null

\* lines 194-195 reading prompt_tokens for both counters
usageCounterPromptOnly(c, counter) ==
    IF "usage" \in DOMAIN c /\ "prompt_tokens" \in DOMAIN c.usage
    THEN c.usage["prompt_tokens"]
    ELSE 0

\* lines 194-195: completion.usage?.<counter> || 0
usageCounter(c, counter) ==
    IF "usage" \in DOMAIN c /\ counter \in DOMAIN c.usage
    THEN c.usage[counter]
    ELSE 0

\* line 206: the text handed to JSON.parse, toolCall.function.arguments || "{}"
argumentsText(toolCall) ==
    IF toolCall.function.arguments # "" THEN toolCall.function.arguments ELSE "{}"

\* lines 204-209: the catch branch is taken when JSON.parse throws
parseFails(toolCall) == JSONparseThrows(argumentsText(toolCall))

\* lines 204-215: the tool_use block of one tool call
toolUseBlock(toolCall) ==
    [type |-> "tool_use",
     id |-> toolCall.id,
     name |-> toolCall.function.name,
     input |-> IF parseFails(toolCall) THEN EmptyObject
               ELSE JSONparse(argumentsText(toolCall))]

\* lines 201-218 replacing the text block's slot: the first block is dropped
toolUseBlocksFromSecond(openAiMessage) ==
    IF "tool_calls" \in DOMAIN openAiMessage /\ Len(openAiMessage.tool_calls) > 0
    THEN Tail([i \in 1..Len(openAiMessage.tool_calls) |->
                 toolUseBlock(openAiMessage.tool_calls[i])])
    ELSE << >>

\* lines 201-218: the blocks pushed after the text block
toolUseBlocks(openAiMessage) ==
    IF "tool_calls" \in DOMAIN openAiMessage /\ Len(openAiMessage.tool_calls) > 0
    THEN [i \in 1..Len(openAiMessage.tool_calls) |->
            toolUseBlock(openAiMessage.tool_calls[i])]
    ELSE << >>

\* lines 207-209 with an empty catch block
parseErrorsSilent(tool_calls) == << >>

\* line 208: one console.error per tool call whose arguments do not parse
RECURSIVE parseErrors(_)
parseErrors(tool_calls) ==
    IF Len(tool_calls) = 0 THEN << >>
    ELSE (IF parseFails(tool_calls[1])
          THEN << <<"Failed to parse tool arguments:", "SyntaxError">> >>
          ELSE << >>) \o parseErrors(Tail(tool_calls))

consoleErrors(c) ==
    LET openAiMessage == c.choices[1].message IN
    IF "tool_calls" \in DOMAIN openAiMessage /\ Len(openAiMessage.tool_calls) > 0
    THEN parseErrors(openAiMessage.tool_calls)
    ELSE << >>

\* lines 166-219: the message returned
convertToAnthropicMessage(c) ==
    LET openAiMessage == c.choices[1].message IN
    [id |-> c.id,
     type |-> "message",
     role |-> openAiMessage.role,
     content |-> << [type |-> "text",
                     text |-> messageText(openAiMessage),
                     citations |-> null] >> \o toolUseBlocks(openAiMessage),
     model |-> c.model,
     stop_reason |-> stopReason(c.choices[1]),
     stop_sequence |-> null,
     usage |-> [input_tokens |-> usageCounter(c, "prompt_tokens"),
                output_tokens |-> usageCounter(c, "completion_tokens"),
                cache_creation_input_tokens |-> 0,
                cache_read_input_tokens |-> 0]]

----------------------------------------------------------------------------
(* Inputs of convertToOpenAiMessages: Anthropic.Messages.MessageParam[] *)

TextBlocks == { [type |-> "text", text |-> "hello"] }

ImageBlocks ==
    { [type |-> "image",
       source |-> [type |-> "base64", media_type |-> "image/png", data |-> "AAAA"]],
      [type |-> "image",
       source |-> [type |-> "url", url |-> "https://example.com/a.png"]] }

ToolResultBlocks ==
    { [type |-> "tool_result", tool_use_id |-> "t1", content |-> Str("done")],
      [type |-> "tool_result", tool_use_id |-> "t2",
       content |-> Arr(<< [type |-> "text", text |-> "out"],
                          [type |-> "image",
                           source |-> [type |-> "base64", media_type |-> "image/png",
                                       data |-> "BBBB"]] >>)],
      [type |-> "tool_result", tool_use_id |-> "t4"] }

ToolUseBlocks ==
    { [type |-> "tool_use", id |-> "t1", name |-> "read_file",
       input |-> [object |-> <<[key |-> "path", value |-> [str |-> "a"]]>>]],
      [type |-> "tool_use", id |-> "t2", name |-> "list_files",
       input |-> EmptyObject] }

\* the blocks a turn of each role is drawn from; a user turn may also carry a
\* tool_use block, and an assistant turn an image or a tool_result block: the
\* input format forbids them and the code skips or tolerates them
BlocksOf(role) ==
    IF role = "user"
    THEN TextBlocks \cup ImageBlocks \cup ToolResultBlocks
         \cup { [type |-> "tool_use", id |-> "t3", name |-> "read_file",
                 input |-> EmptyObject] }
    ELSE TextBlocks \cup ToolUseBlocks
         \cup { [type |-> "image",
                 source |-> [type |-> "base64", media_type |-> "image/png",
                             data |-> "AAAA"]],
                [type |-> "tool_result", tool_use_id |-> "t3",
                 content |-> Str("done")] }

Roles == {"user", "assistant"}

StringContents == {"", "hi"}

\* the turns of size w: a string or an empty block list has size 1, a list of
\* n blocks size 1 + n
TurnsOfSize(w) ==
    IF w = 1
    THEN { [role |-> r, content |-> Str(t)] : r \in Roles, t \in StringContents }
         \cup { [role |-> r, content |-> Arr(<< >>)] : r \in Roles }
    ELSE UNION { { [role |-> r, content |-> Arr(b)] : b \in [1..(w - 1) -> BlocksOf(r)] }
                 : r \in Roles }

\* the size of a turn and of a list of turns
sizeOfTurn(t) == IF typeofString(t.content) THEN 1 ELSE 1 + Len(t.content.array)

RECURSIVE sizeOf(_)
sizeOf(msgs) == IF Len(msgs) = 0 THEN 0 ELSE sizeOfTurn(msgs[1]) + sizeOf(Tail(msgs))

----------------------------------------------------------------------------
(* Inputs of convertToAnthropicMessage: OpenAI.Chat.Completions.ChatCompletion *)

\* a record with the optional field, one per value, or without it
WithOptional(base, field, values) ==
    { base } \cup { base @@ (field :> v) : v \in values }

ToolCalls ==
    { [id |-> "call_1", type |-> "function",
       function |-> [name |-> "read_file", arguments |-> "{\"path\":\"a\"}"]],
      [id |-> "call_2", type |-> "function",
       function |-> [name |-> "list_files", arguments |-> "{}"]],
      [id |-> "call_3", type |-> "function",
       function |-> [name |-> "list_files", arguments |-> ""]],
      [id |-> "call_4", type |-> "function",
       function |-> [name |-> "write_file", arguments |-> "not json"]],
      [id |-> "call_5", type |-> "function",
       function |-> [name |-> "read_file", arguments |-> "{\"path\":"]] }

ToolCallLists == UNION { [1..n -> ToolCalls] : n \in 0..MaxToolCalls }

OpenAiMessages ==
    UNION { WithOptional(m, "tool_calls", ToolCallLists)
            : m \in WithOptional([role |-> "assistant"], "content", {"", "Hello"}) }

FinishReasons ==
    {"stop", "length", "tool_calls", "content_filter", "function_call", "eos"}

TokenCounts == {0, 7}

Usages ==
    UNION { WithOptional(u, "completion_tokens", TokenCounts)
            : u \in WithOptional([total_tokens |-> 9], "prompt_tokens", TokenCounts) }

\* the completions with message m as their first choice's message
CompletionsWith(m) ==
    UNION { WithOptional([id |-> "chatcmpl-1", model |-> "gpt-4o", choices |-> << ch >>],
                         "usage", Usages)
            : ch \in WithOptional([message |-> m], "finish_reason", FinishReasons) }

----------------------------------------------------------------------------
(* One call of a translator on one input *)

NoMessages == << >>
NoCompletion ==
    [id |-> "", model |-> "", choices |-> << [message |-> [role |-> "assistant"]] >>]
NoMessage == [type |-> "none"]

\* no EmbeddingOptions component is rendered
NoConfiguration == [openAiNativeApiKey |-> ""]
NotRun == [mounted |-> FALSE]
NoComponent ==
    /\ embeddingConfiguration = NoConfiguration
    /\ isEmbeddingValid = "null"
    /\ isLoading = FALSE
    /\ validateDue = FALSE
    /\ writeBackDeps = NotRun
    /\ posted = << >>
    /\ answered = {}

InitForward ==
    /\ pc = "callForward"
    /\ anthropicMessages = << >>
    /\ openAiMessages = << >>
    /\ completion = NoCompletion
    /\ anthropicMessage = NoMessage
    /\ console = << >>
    /\ history = << >>
    /\ NoComponent

InitReverse ==
    /\ pc = "callReverse"
    /\ anthropicMessages = NoMessages
    /\ openAiMessages = << >>
    /\ \E m \in OpenAiMessages : completion \in CompletionsWith(m)
    /\ anthropicMessage = NoMessage
    /\ console = << >>
    /\ history = << >>
    /\ NoComponent

Init == InitForward \/ InitReverse

\* the caller adds a turn to the conversation it is going to translate
AppendTurn ==
    /\ pc \in {"callForward", "doneForward"}
    /\ \E w \in 1..(MaxSize - sizeOf(anthropicMessages)) :
         \E t \in TurnsOfSize(w) :
            anthropicMessages' = Append(anthropicMessages, t)
    /\ openAiMessages' = << >>
    /\ pc' = "callForward"
    /\ UNCHANGED <<completion, anthropicMessage, console, history>>
    /\ UNCHANGED componentVars

\* convertToOpenAiMessages(anthropicMessages) returns
ConvertToOpenAiMessages ==
    /\ pc = "callForward"
    /\ openAiMessages' = convertToOpenAiMessages(anthropicMessages, openAiMessages)
    /\ pc' = "doneForward"
    /\ UNCHANGED <<anthropicMessages, completion, anthropicMessage, console, history>>
    /\ UNCHANGED componentVars

\* convertToAnthropicMessage(completion) returns
ConvertToAnthropicMessage ==
    /\ pc = "callReverse"
    /\ anthropicMessage' = convertToAnthropicMessage(completion)
    /\ console' = console \o consoleErrors(completion)
    /\ pc' = "doneReverse"
    /\ UNCHANGED <<anthropicMessages, openAiMessages, completion, history>>
    /\ UNCHANGED componentVars

Next == AppendTurn \/ ConvertToOpenAiMessages \/ ConvertToAnthropicMessage

Spec == Init /\ [][Next]_vars

----------------------------------------------------------------------------
(* What the translation of a message list is expected to look like, stated *)
(* on the input blocks                                                     *)

IsBlocks(turn) == ~typeofString(turn.content)
IsUserBlocks(turn) == IsBlocks(turn) /\ turn.role = "user"
IsAssistantBlocks(turn) == IsBlocks(turn) /\ turn.role = "assistant"

BlocksOfType(turn, types) ==
    SelectSeq(turn.content.array, LAMBDA b : b.type \in types)

ToolResultsOf(turn) == BlocksOfType(turn, {"tool_result"})
ToolUsesOf(turn) == BlocksOfType(turn, {"tool_use"})
PlainBlocksOf(turn) == BlocksOfType(turn, {"text", "image"})

\* the number of output turns an input turn stands for
TurnsFor(turn) ==
    IF IsUserBlocks(turn)
    THEN Len(ToolResultsOf(turn)) + (IF Len(PlainBlocksOf(turn)) > 0 THEN 1 ELSE 0)
    ELSE 1

\* the number of output turns that stand for the input turns before turn i
RECURSIVE Offset(_, _)
Offset(msgs, i) ==
    IF i <= 1 THEN 0 ELSE Offset(msgs, i - 1) + TurnsFor(msgs[i - 1])

Returned == pc = "doneForward"

----------------------------------------------------------------------------
\* C1: for every user turn with block content the output holds, at the turn's
\* place, one "tool" turn per tool_result block, consecutive and in the blocks'
\* order, followed by one "user" turn for the text/image blocks when there are
\* any and by nothing otherwise; the turns of the other input turns lie
\* entirely before or after them.
C1_ToolResultsFirst ==
    Returned =>
        /\ Len(openAiMessages) = Offset(anthropicMessages, Len(anthropicMessages) + 1)
        /\ \A i \in 1..Len(anthropicMessages) :
             IsUserBlocks(anthropicMessages[i]) =>
                LET results == ToolResultsOf(anthropicMessages[i])
                    plain   == PlainBlocksOf(anthropicMessages[i])
                    at      == Offset(anthropicMessages, i)
                IN  /\ \A k \in 1..Len(results) :
                          /\ openAiMessages[at + k].role = "tool"
                          /\ openAiMessages[at + k].tool_call_id = results[k].tool_use_id
                    /\ Len(plain) > 0 =>
                          /\ openAiMessages[at + Len(results) + 1].role = "user"
                          /\ Len(openAiMessages[at + Len(results) + 1].content.array)
                                = Len(plain)

\* a returned translation of a list with a user turn holding a tool result,
\* then a text or image block, then another tool result
C1_Witness ==
    /\ Returned
    /\ \E i \in 1..Len(anthropicMessages) :
         /\ IsUserBlocks(anthropicMessages[i])
         /\ LET c == anthropicMessages[i].content.array IN
            /\ Len(c) = 3
            /\ c[1].type = "tool_result" /\ c[3].type = "tool_result"
            /\ c[2].type \in {"text", "image"}
            /\ c[1].tool_use_id # c[3].tool_use_id

----------------------------------------------------------------------------
(* C2 *)

\* the invariants of the input format: tool_use blocks only in assistant
\* turns, tool_result blocks only in user turns
FormatAInvariants(msgs) ==
    \A i \in 1..Len(msgs) :
        IsBlocks(msgs[i]) =>
            /\ msgs[i].role = "user" => Len(ToolUsesOf(msgs[i])) = 0
            /\ msgs[i].role = "assistant" => Len(ToolResultsOf(msgs[i])) = 0

\* every user turn that carries tool results directly follows an assistant
\* turn with block content whose tool_use blocks carry the results' ids
ToolResultsAnswerPreviousTurn(msgs) ==
    \A i \in 1..Len(msgs) :
        (IsUserBlocks(msgs[i]) /\ Len(ToolResultsOf(msgs[i])) > 0) =>
            /\ i > 1
            /\ IsAssistantBlocks(msgs[i - 1])
            /\ \A k \in 1..Len(ToolResultsOf(msgs[i])) :
                 \E j \in 1..Len(ToolUsesOf(msgs[i - 1])) :
                    ToolUsesOf(msgs[i - 1])[j].id = ToolResultsOf(msgs[i])[k].tool_use_id

\* every "tool" turn follows, with only "tool" turns in between, an assistant
\* turn one of whose tool calls has the tool turn's id
ToolTurnsFollowTheirCall(out) ==
    \A p \in 1..Len(out) :
        out[p].role = "tool" =>
            \E q \in 1..(p - 1) :
                /\ out[q].role = "assistant"
                /\ \A r \in (q + 1)..(p - 1) : out[r].role = "tool"
                /\ "tool_calls" \in DOMAIN out[q]
                /\ \E k \in 1..Len(out[q].tool_calls) :
                      out[q].tool_calls[k].id = out[p].tool_call_id

\* among the output turns of one user turn no "tool" turn comes after a
\* "user" turn
ToolTurnsBeforeUserContent(msgs, out) ==
    \A i \in 1..Len(msgs) :
        IsUserBlocks(msgs[i]) =>
            LET first == Offset(msgs, i) + 1
                last  == Offset(msgs, i + 1)
            IN  \A a, b \in first..last :
                    (a < b /\ a <= Len(out) /\ b <= Len(out)) =>
                        ~(out[a].role = "user" /\ out[b].role = "tool")

\* C2 as claimed: for every input list that satisfies the format-A
\* invariants, every "tool" turn of the output follows the assistant turn that
\* issued the matching call, and comes before the user content of its turn.
C2_Original ==
    (Returned /\ FormatAInvariants(anthropicMessages)) =>
        /\ ToolTurnsFollowTheirCall(openAiMessages)
        /\ ToolTurnsBeforeUserContent(anthropicMessages, openAiMessages)

\* C2 as amended: the same, for the input lists that satisfy the format-A
\* invariants and in which every user turn carrying tool results directly
\* follows an assistant turn with block content whose tool_use blocks carry
\* the ids of those results.
C2_ToolTurnsFollowTheirCall ==
    (/\ Returned
     /\ FormatAInvariants(anthropicMessages)
     /\ ToolResultsAnswerPreviousTurn(anthropicMessages)) =>
        /\ ToolTurnsFollowTheirCall(openAiMessages)
        /\ ToolTurnsBeforeUserContent(anthropicMessages, openAiMessages)

\* a returned translation of such a list, in which a user turn answers the
\* previous assistant turn's tool call and also carries text or an image
C2_Witness ==
    /\ Returned
    /\ FormatAInvariants(anthropicMessages)
    /\ ToolResultsAnswerPreviousTurn(anthropicMessages)
    /\ \E i \in 1..Len(anthropicMessages) :
         /\ IsUserBlocks(anthropicMessages[i])
         /\ Len(ToolResultsOf(anthropicMessages[i])) > 0
         /\ Len(PlainBlocksOf(anthropicMessages[i])) > 0
         /\ anthropicMessages[i].content.array[1].type # "tool_result"

----------------------------------------------------------------------------
\* C3: an assistant turn with block content yields an assistant turn whose
\* tool_calls is absent when the turn has no tool_use block and otherwise
\* holds one call per tool_use block, in the blocks' order, with type
\* "function", the block's id and name and the JSON text of its input; no
\* assistant turn of the output has an empty tool_calls.
C3_ToolCalls ==
    Returned =>
        /\ \A p \in 1..Len(openAiMessages) :
             (openAiMessages[p].role = "assistant"
                /\ "tool_calls" \in DOMAIN openAiMessages[p]) =>
                    Len(openAiMessages[p].tool_calls) > 0
        /\ \A i \in 1..Len(anthropicMessages) :
             IsAssistantBlocks(anthropicMessages[i]) =>
                LET uses == ToolUsesOf(anthropicMessages[i])
                    o    == openAiMessages[Offset(anthropicMessages, i) + 1]
                IN  /\ o.role = "assistant"
                    /\ Len(uses) = 0 => "tool_calls" \notin DOMAIN o
                    /\ Len(uses) >= 1 =>
                          /\ "tool_calls" \in DOMAIN o
                          /\ Len(o.tool_calls) = Len(uses)
                          /\ \A k \in 1..Len(uses) :
                                o.tool_calls[k] =
                                    [id |-> uses[k].id,
                                     type |-> "function",
                                     function |->
                                        [name |-> uses[k].name,
                                         arguments |-> JSONstringify(uses[k].input)]]

\* a returned translation of a list with one assistant turn without tool_use
\* blocks and one with two different tool_use blocks around a text block
C3_Witness ==
    /\ Returned
    /\ \E i, j \in 1..Len(anthropicMessages) :
         /\ IsAssistantBlocks(anthropicMessages[i])
         /\ Len(ToolUsesOf(anthropicMessages[i])) = 0
         /\ IsAssistantBlocks(anthropicMessages[j])
         /\ LET c == anthropicMessages[j].content.array IN
            /\ Len(c) = 3
            /\ c[1].type = "tool_use" /\ c[2].type = "text" /\ c[3].type = "tool_use"
            /\ c[1].id # c[3].id
            /\ openAiMessages[Offset(anthropicMessages, j) + 1].tool_calls[1]
                    .function.arguments = "{\"path\":\"a\"}"

----------------------------------------------------------------------------
\* C4: a turn whose content is a string yields exactly one output turn, at
\* the turn's place, with the same role and the same string and nothing else;
\* the output of a list of string turns has the length of the list.
C4_StringTurns ==
    Returned =>
        /\ Len(openAiMessages) = Offset(anthropicMessages, Len(anthropicMessages) + 1)
        /\ \A i \in 1..Len(anthropicMessages) :
             typeofString(anthropicMessages[i].content) =>
                openAiMessages[Offset(anthropicMessages, i) + 1] =
                    [role |-> anthropicMessages[i].role,
                     content |-> [string |-> anthropicMessages[i].content.string]]
        /\ (\A i \in 1..Len(anthropicMessages) :
                typeofString(anthropicMessages[i].content)) =>
                    Len(openAiMessages) = Len(anthropicMessages)

\* a returned translation of a list of three or more string turns, of both
\* roles and with different strings
C4_Witness ==
    /\ Returned
    /\ Len(anthropicMessages) >= 3
    /\ \A i \in 1..Len(anthropicMessages) :
          typeofString(anthropicMessages[i].content)
    /\ \E i, j \in 1..Len(anthropicMessages) :
          /\ anthropicMessages[i].role # anthropicMessages[j].role
          /\ anthropicMessages[i].content.string # anthropicMessages[j].content.string
    /\ openAiMessages[1].content.string = anthropicMessages[1].content.string

----------------------------------------------------------------------------
\* C5: the "user" turn emitted for a user turn's text/image blocks holds one
\* part per block, in order: a text part with the block's text, or an
\* image_url part whose url is "data:" + media_type + ";base64," + data for a
\* base64 source and the source's url otherwise.
C5_UserParts ==
    Returned =>
        \A i \in 1..Len(anthropicMessages) :
            (IsUserBlocks(anthropicMessages[i])
                /\ Len(PlainBlocksOf(anthropicMessages[i])) > 0) =>
                LET plain == PlainBlocksOf(anthropicMessages[i])
                    o == openAiMessages[Offset(anthropicMessages, i)
                                        + Len(ToolResultsOf(anthropicMessages[i])) + 1]
                IN  /\ o.role = "user"
                    /\ Len(o.content.array) = Len(plain)
                    /\ \A k \in 1..Len(plain) :
                          IF plain[k].type = "text"
                          THEN o.content.array[k] =
                                  [type |-> "text", text |-> plain[k].text]
                          ELSE IF plain[k].source.type = "base64"
                          THEN /\ o.content.array[k] =
                                    [type |-> "image_url",
                                     image_url |->
                                        [url |-> "data:" \o plain[k].source.media_type
                                                    \o ";base64," \o plain[k].source.data]]
                               /\ (plain[k].source.media_type = "image/png"
                                     /\ plain[k].source.data = "AAAA") =>
                                    o.content.array[k].image_url.url
                                        = "data:image/png;base64,AAAA"
                          ELSE o.content.array[k] =
                                  [type |-> "image_url",
                                   image_url |-> [url |-> plain[k].source.url]]

\* a returned translation of a user turn that holds a base64 image, a tool
\* result, a url image and a text block
C5_Witness ==
    /\ Returned
    /\ \E i \in 1..Len(anthropicMessages) :
         /\ IsUserBlocks(anthropicMessages[i])
         /\ LET c == anthropicMessages[i].content.array IN
            /\ Len(c) = 4
            /\ c[1].type = "image" /\ c[1].source.type = "base64"
            /\ c[2].type = "tool_result"
            /\ c[3].type = "image" /\ c[3].source.type = "url"
            /\ c[4].type = "text"
         /\ openAiMessages[Offset(anthropicMessages, i) + 2].content.array[1]
                .image_url.url = "data:image/png;base64,AAAA"

----------------------------------------------------------------------------
(* The reverse direction *)

ReturnedMessage == pc = "doneReverse"

HasToolCalls(c) == "tool_calls" \in DOMAIN c.choices[1].message

\* the tool calls of the completion's message, none when the field is absent
ToolCallsOf(c) ==
    IF HasToolCalls(c) THEN c.choices[1].message.tool_calls ELSE << >>

\* C6: stop_reason follows the table stop -> end_turn, length -> max_tokens,
\* tool_calls -> tool_use, and is null for every other finish reason and for a
\* missing one; stop_sequence is null.
C6_StopReason ==
    ReturnedMessage =>
        LET choice == completion.choices[1] IN
        /\ anthropicMessage.stop_sequence = null
        /\ anthropicMessage.stop_reason =
              (IF "finish_reason" \notin DOMAIN choice THEN null
               ELSE IF choice.finish_reason = "stop" THEN "end_turn"
               ELSE IF choice.finish_reason = "length" THEN "max_tokens"
               ELSE IF choice.finish_reason = "tool_calls" THEN "tool_use"
               ELSE null)

\* a returned message for a completion that finished with "tool_calls"
C6_Witness ==
    /\ ReturnedMessage
    /\ "finish_reason" \in DOMAIN completion.choices[1]
    /\ completion.choices[1].finish_reason = "tool_calls"
    /\ anthropicMessage.stop_reason = "tool_use"

----------------------------------------------------------------------------
(* C7 *)

IsValidJson(text) == \E v \in JsonValues : JSONstringify(v) = text

\* the completion with the arguments of its tool calls in `calls` set to "{}"
WithEmptyObjectArguments(c, calls) ==
    IF HasToolCalls(c)
    THEN [c EXCEPT !.choices[1].message.tool_calls =
             [k \in 1..Len(@) |->
                IF k \in calls THEN [@[k] EXCEPT !.function.arguments = "{}"]
                ELSE @[k]]]
    ELSE c

\* what C7 says of the tool calls in `bad`: each yields input = {}, each is
\* logged once and nothing else is, a message is returned, and it is the
\* message returned when those calls' arguments are "{}"
MalformedDegradeToEmpty(bad) ==
    /\ anthropicMessage.type = "message"
    /\ \A k \in bad : anthropicMessage.content[1 + k].input = EmptyObject
    /\ Len(console) = Cardinality(bad)
    /\ anthropicMessage
          = convertToAnthropicMessage(WithEmptyObjectArguments(completion, bad))

\* C7 as claimed: every tool call whose arguments are not valid JSON yields
\* a tool_use block with input = {} and exactly one diagnostic entry; nothing
\* is thrown and the rest of the message is as if the arguments were "{}".
C7_Original ==
    ReturnedMessage =>
        MalformedDegradeToEmpty(
            { k \in 1..Len(ToolCallsOf(completion)) :
                ~IsValidJson(ToolCallsOf(completion)[k].function.arguments) })

\* C7 as amended: the same for every tool call whose arguments are not empty
\* and not valid JSON; a call with the empty string as arguments yields
\* input = {} and no diagnostic entry.
C7_MalformedArguments ==
    ReturnedMessage =>
        /\ MalformedDegradeToEmpty(
              { k \in 1..Len(ToolCallsOf(completion)) :
                  /\ ToolCallsOf(completion)[k].function.arguments # ""
                  /\ ~IsValidJson(ToolCallsOf(completion)[k].function.arguments) })
        /\ \A k \in 1..Len(ToolCallsOf(completion)) :
              ToolCallsOf(completion)[k].function.arguments = "" =>
                  anthropicMessage.content[1 + k].input = EmptyObject

\* a returned message for a completion with a malformed call before a
\* well-formed one
C7_Witness ==
    /\ ReturnedMessage
    /\ Len(ToolCallsOf(completion)) = 2
    /\ ToolCallsOf(completion)[1].function.arguments = "not json"
    /\ ToolCallsOf(completion)[2].function.arguments = "{\"path\":\"a\"}"
    /\ anthropicMessage.content[3].input # EmptyObject
    /\ Len(console) = 1

----------------------------------------------------------------------------
\* C8: usage.input_tokens is the completion's prompt_tokens and
\* usage.output_tokens its completion_tokens, each 0 when the usage object or
\* the counter is missing; both cache counters are 0.
C8_Usage ==
    ReturnedMessage =>
        /\ anthropicMessage.usage.input_tokens =
              (IF "usage" \in DOMAIN completion
                     /\ "prompt_tokens" \in DOMAIN completion.usage
               THEN completion.usage.prompt_tokens ELSE 0)
        /\ anthropicMessage.usage.output_tokens =
              (IF "usage" \in DOMAIN completion
                     /\ "completion_tokens" \in DOMAIN completion.usage
               THEN completion.usage.completion_tokens ELSE 0)
        /\ anthropicMessage.usage.cache_creation_input_tokens = 0
        /\ anthropicMessage.usage.cache_read_input_tokens = 0

\* a returned message for a completion whose usage has a prompt_tokens of 7
\* and no completion_tokens
C8_Witness ==
    /\ ReturnedMessage
    /\ "usage" \in DOMAIN completion
    /\ "prompt_tokens" \in DOMAIN completion.usage
    /\ completion.usage.prompt_tokens = 7
    /\ "completion_tokens" \notin DOMAIN completion.usage
    /\ anthropicMessage.usage.input_tokens = 7
    /\ anthropicMessage.usage.output_tokens = 0

----------------------------------------------------------------------------
\* C10: the returned content is one text block, with the completion
\* message's content ("" when absent or empty) and citations null, followed by
\* one tool_use block per tool call, in order, with the call's id and
\* function name; its length is 1 + the number of tool calls.
C10_Content ==
    ReturnedMessage =>
        LET message == completion.choices[1].message
            calls   == ToolCallsOf(completion)
            content == anthropicMessage.content
        IN  /\ Len(content) = 1 + Len(calls)
            /\ content[1] =
                  [type |-> "text",
                   text |-> IF "content" \in DOMAIN message THEN message.content ELSE "",
                   citations |-> null]
            /\ \A k \in 1..Len(calls) :
                  /\ content[1 + k].type = "tool_use"
                  /\ content[1 + k].id = calls[k].id
                  /\ content[1 + k].name = calls[k].function.name

\* a returned message for a completion without content and with two
\* different tool calls
C10_Witness ==
    /\ ReturnedMessage
    /\ "content" \notin DOMAIN completion.choices[1].message
    /\ Len(ToolCallsOf(completion)) = 2
    /\ ToolCallsOf(completion)[1].id # ToolCallsOf(completion)[2].id
    /\ Len(anthropicMessage.content) = 3

----------------------------------------------------------------------------
(* Repeated calls: the two translators called again and again, in any      *)
(* order, each time on one of a few inputs                                 *)

SampleMessageLists ==
    { << >>,
      << [role |-> "user", content |-> Str("hi")] >>,
      << [role |-> "user",
          content |-> Arr(<< [type |-> "text", text |-> "hello"],
                             [type |-> "tool_result", tool_use_id |-> "t1",
                              content |-> Str("done")] >>)] >>,
      << [role |-> "assistant",
          content |-> Arr(<< [type |-> "text", text |-> "hello"],
                             [type |-> "tool_use", id |-> "t1", name |-> "read_file",
                              input |-> EmptyObject] >>)],
         [role |-> "user",
          content |-> Arr(<< [type |-> "tool_result", tool_use_id |-> "t1",
                              content |-> Str("done")] >>)] >> }

SampleCompletions ==
    { [id |-> "chatcmpl-1", model |-> "gpt-4o",
       choices |-> << [message |-> [role |-> "assistant", content |-> "Hello"],
                       finish_reason |-> "stop"] >>,
       usage |-> [total_tokens |-> 9, prompt_tokens |-> 7, completion_tokens |-> 0]],
      [id |-> "chatcmpl-1", model |-> "gpt-4o",
       choices |-> << [message |->
                          [role |-> "assistant",
                           tool_calls |->
                              << [id |-> "call_4", type |-> "function",
                                  function |-> [name |-> "write_file",
                                                arguments |-> "not json"]],
                                 [id |-> "call_1", type |-> "function",
                                  function |-> [name |-> "read_file",
                                                arguments |-> "{\"path\":\"a\"}"]] >>],
                       finish_reason |-> "tool_calls"] >>],
      [id |-> "chatcmpl-1", model |-> "gpt-4o",
       choices |-> << [message |-> [role |-> "assistant"]] >>] }

InitCalls ==
    /\ pc = "idle"
    /\ anthropicMessages = NoMessages
    /\ openAiMessages = << >>
    /\ completion = NoCompletion
    /\ anthropicMessage = NoMessage
    /\ console = << >>
    /\ history = << >>
    /\ NoComponent

\* one more call of convertToOpenAiMessages; anthropicMessages is the
\* argument as it is after the call
CallConvertToOpenAiMessages ==
    /\ pc = "idle"
    /\ Len(history) < MaxCalls
    /\ \E msgs \in SampleMessageLists :
         LET result == convertToOpenAiMessages(msgs, openAiMessages) IN
         /\ anthropicMessages' = msgs
         /\ openAiMessages' = result
         /\ history' = Append(history, [fn |-> "convertToOpenAiMessages",
                                        messages |-> msgs, result |-> result])
    /\ UNCHANGED <<pc, completion, anthropicMessage, console>>
    /\ UNCHANGED componentVars

\* one more call of convertToAnthropicMessage
CallConvertToAnthropicMessage ==
    /\ pc = "idle"
    /\ Len(history) < MaxCalls
    /\ \E c \in SampleCompletions :
         LET result == convertToAnthropicMessage(c) IN
         /\ completion' = c
         /\ anthropicMessage' = result
         /\ console' = console \o consoleErrors(c)
         /\ history' = Append(history, [fn |-> "convertToAnthropicMessage",
                                        completion |-> c, result |-> result])
    /\ UNCHANGED <<pc, anthropicMessages, openAiMessages>>
    /\ UNCHANGED componentVars

NextCalls == CallConvertToOpenAiMessages \/ CallConvertToAnthropicMessage

SpecCalls == InitCalls /\ [][NextCalls]_vars

\* two calls of the history are calls of the same translator on the same input
SameCall(a, b) ==
    /\ a.fn = b.fn
    /\ IF a.fn = "convertToOpenAiMessages" THEN a.messages = b.messages
       ELSE a.completion = b.completion

----------------------------------------------------------------------------
(* C11 *)

\* what a part of a tool result stands for in the tool turn's content
LineOf(part) ==
    IF part.type = "image" THEN "(see following user message for image)"
    ELSE part.text

\* the lines of the parts, each but the first after a newline
RECURSIVE LinesOf(_)
LinesOf(parts) ==
    IF Len(parts) = 0 THEN ""
    ELSE IF Len(parts) = 1 THEN LineOf(parts[1])
    ELSE LinesOf(SubSeq(parts, 1, Len(parts) - 1)) \o "\n" \o LineOf(parts[Len(parts)])

\* the string a tool result's content stands for: itself, or the lines of its
\* parts (none when the block has no content)
ToolResultText(block) ==
    IF "content" \notin DOMAIN block THEN ""
    ELSE IF typeofString(block.content) THEN block.content.string
    ELSE LinesOf(block.content.array)

\* the image_url parts of the images that lie inside the turn's tool results
ToolResultImageUrls(turn) ==
    { "data:" \o p.source.media_type \o ";base64," \o p.source.data :
        p \in UNION { { b.content.array[n] : n \in { x \in 1..Len(b.content.array) :
                                                      b.content.array[x].type = "image" } }
                      : b \in { r \in { ToolResultsOf(turn)[k] :
                                          k \in 1..Len(ToolResultsOf(turn)) } :
                                  "content" \in DOMAIN r /\ ~typeofString(r.content) } } }

\* C11: the tool turn of a tool_result block carries the block's tool_use_id
\* and, as a string, the block's content: the string itself, or its parts
\* joined by newlines with a text part's text and, for an image part, the
\* placeholder "(see following user message for image)".  The images of tool
\* results add no output turn and are in no part of the turn's "user" output.
C11_ToolResultContent ==
    Returned =>
        /\ Len(openAiMessages) = Offset(anthropicMessages, Len(anthropicMessages) + 1)
        /\ \A i \in 1..Len(anthropicMessages) :
             IsUserBlocks(anthropicMessages[i]) =>
                LET results == ToolResultsOf(anthropicMessages[i])
                    at      == Offset(anthropicMessages, i)
                    last    == Offset(anthropicMessages, i + 1)
                IN  /\ \A k \in 1..Len(results) :
                          openAiMessages[at + k] =
                              [role |-> "tool",
                               tool_call_id |-> results[k].tool_use_id,
                               content |-> [string |-> ToolResultText(results[k])]]
                    /\ \A p \in (at + 1)..last :
                          openAiMessages[p].role = "user" =>
                              /\ Len(openAiMessages[p].content.array)
                                    = Len(PlainBlocksOf(anthropicMessages[i]))
                              /\ \A n \in 1..Len(openAiMessages[p].content.array) :
                                    openAiMessages[p].content.array[n].type = "image_url" =>
                                        openAiMessages[p].content.array[n].image_url.url
                                            \notin ToolResultImageUrls(anthropicMessages[i])

\* a returned translation of a user turn with a tool result made of a text and
\* an image, a tool result without content, an image of the user and a tool
\* result that is a string
C11_Witness ==
    /\ Returned
    /\ \E i \in 1..Len(anthropicMessages) :
         /\ IsUserBlocks(anthropicMessages[i])
         /\ LET c == anthropicMessages[i].content.array
                at == Offset(anthropicMessages, i)
            IN
            /\ Len(c) = 4
            /\ c[1].type = "tool_result" /\ c[1].tool_use_id = "t2"
            /\ c[2].type = "tool_result" /\ "content" \notin DOMAIN c[2]
            /\ c[3].type = "image"
            /\ c[4].type = "tool_result" /\ c[4].tool_use_id = "t1"
            /\ openAiMessages[at + 1].content.string
                  = "out\n(see following user message for image)"
            /\ openAiMessages[at + 2].content.string = ""
            /\ openAiMessages[at + 3].content.string = "done"
            /\ Offset(anthropicMessages, i + 1) = at + 4

----------------------------------------------------------------------------
(* C12 *)

\* the texts of an assistant turn's text/image blocks, an image standing for
\* the empty string, each but the first after a newline
RECURSIVE AssistantText(_)
AssistantText(plain) ==
    IF Len(plain) = 0 THEN ""
    ELSE LET lastText == IF plain[Len(plain)].type = "image" THEN ""
                         ELSE plain[Len(plain)].text
         IN  IF Len(plain) = 1 THEN lastText
             ELSE AssistantText(SubSeq(plain, 1, Len(plain) - 1)) \o "\n" \o lastText

\* C12: an assistant turn with block content yields exactly one assistant
\* turn, whatever its blocks; its content is the turn's texts joined by
\* newlines, an image block counting as the empty string, and is absent when
\* the turn has no text or image block.
C12_AssistantContent ==
    Returned =>
        /\ Len(openAiMessages) = Offset(anthropicMessages, Len(anthropicMessages) + 1)
        /\ \A i \in 1..Len(anthropicMessages) :
             IsAssistantBlocks(anthropicMessages[i]) =>
                LET plain == PlainBlocksOf(anthropicMessages[i])
                    o     == openAiMessages[Offset(anthropicMessages, i) + 1]
                IN  /\ Offset(anthropicMessages, i + 1) = Offset(anthropicMessages, i) + 1
                    /\ o.role = "assistant"
                    /\ Len(plain) = 0 => "content" \notin DOMAIN o
                    /\ Len(plain) > 0 =>
                          /\ "content" \in DOMAIN o
                          /\ o.content = [string |-> AssistantText(plain)]

\* a returned translation of an assistant turn holding a text, an image and a
\* text, and of an assistant turn with block content and no text or image
C12_Witness ==
    /\ Returned
    /\ \E i, j \in 1..Len(anthropicMessages) :
         /\ IsAssistantBlocks(anthropicMessages[i])
         /\ LET c == anthropicMessages[i].content.array IN
            /\ Len(c) = 3
            /\ c[1].type = "text" /\ c[2].type = "image" /\ c[3].type = "text"
         /\ openAiMessages[Offset(anthropicMessages, i) + 1].content.string
               = "hello\n\nhello"
         /\ IsAssistantBlocks(anthropicMessages[j])
         /\ Len(PlainBlocksOf(anthropicMessages[j])) = 0
         /\ "content" \notin DOMAIN openAiMessages[Offset(anthropicMessages, j) + 1]

----------------------------------------------------------------------------
(* EmbeddingOptions: normalizeEmbeddingConfiguration                       *)
(*                                                                         *)
(* An embedding configuration is a record of its defined properties.  The  *)
(* catalogs are the sets of the model ids they have an entry for; the      *)
(* entry itself (selectedModelInfo) is not modelled, the component state   *)
(* does not depend on it.                                                  *)

openAiNativeEmbeddingModels ==
    {"text-embedding-3-small", "text-embedding-3-large", "text-embedding-ada-002"}
openAiNativeEmbeddingDefaultModelId == "text-embedding-3-small"
bedrockEmbeddingModels ==
    {"amazon.titan-embed-text-v1", "amazon.titan-embed-text-v2:0"}
bedrockeEmbeddingDefaultModelId == "amazon.titan-embed-text-v1"

\* property names every object inherits: the in operator finds them as well
ObjectPrototype == {"toString"}

\* config?.field is neither undefined nor the empty string
truthy(config, field) == field \in DOMAIN config /\ config[field] # ""

\* getProviderData with the configured provider replaced by the default one
getProviderDataDefaultProvider(provider, config, models, defaultId) ==
    [selectedProvider |-> "openai-native",
     selectedModelId |->
        IF truthy(config, "modelId") /\ config.modelId \in models \cup ObjectPrototype
        THEN config.modelId
        ELSE defaultId]

getProviderData(provider, config, models, defaultId) ==
    [selectedProvider |-> provider,
     selectedModelId |->
        IF truthy(config, "modelId") /\ config.modelId \in models \cup ObjectPrototype
        THEN config.modelId
        ELSE defaultId]

normalizeEmbeddingConfiguration(config) ==
    LET provider == IF truthy(config, "provider") THEN config.provider
                    ELSE "openai-native"
    IN  IF provider = "bedrock"
        THEN getProviderData(provider, config, bedrockEmbeddingModels,
                             bedrockeEmbeddingDefaultModelId)
        ELSE getProviderData(provider, config, openAiNativeEmbeddingModels,
                             openAiNativeEmbeddingDefaultModelId)

\* { ...config, [field]: value }
spread(config, field, value) == (field :> value) @@ config

----------------------------------------------------------------------------
(* EmbeddingOptions: state, handlers and effects *)

\* configurations the extension state may hold when the component mounts
Providers == {"", "bedrock", "openai-native", "openai", "ollama"}
ModelIds ==
    {"", "text-embedding-3-large", "amazon.titan-embed-text-v2:0", "bogus",
     "toString"}
EmbeddingConfigurations ==
    UNION { WithOptional(c, "modelId", ModelIds) :
              c \in WithOptional([openAiNativeApiKey |-> "sk-1"], "provider",
                                 Providers) }

\* the fields the form edits and the values typed or selected
Fields == {"provider", "modelId", "openAiNativeApiKey"}
ValuesOf(field) ==
    IF field = "provider" THEN {"bedrock"}
    ELSE IF field = "modelId" THEN {"text-embedding-3-large"}
    ELSE {"sk-2"}

validateEmbeddingKey(config) ==
    [type |-> "validateEmbeddingKey", embeddingConfiguration |-> config]

\* the requests the extension has not answered yet
Unanswered ==
    { i \in 1..Len(posted) : \A message \in answered : message.request # i }

\* the messages the extension may send next: the verdict on a request it has
\* not answered yet (request is the position of that request in posted, the
\* component cannot see it), or a message of another type
ExtensionMessages ==
    { [type |-> "embeddingValidation", text |-> t, request |-> i] :
        t \in {"valid", "invalid"}, i \in Unanswered }
    \cup { [type |-> "theme", text |-> "dark"] }

\* the component is rendered for the first time; its effects have not run
InitEmbedding ==
    /\ pc = "render"
    /\ anthropicMessages = NoMessages
    /\ openAiMessages = << >>
    /\ completion = NoCompletion
    /\ anthropicMessage = NoMessage
    /\ console = << >>
    /\ history = << >>
    /\ embeddingConfiguration \in EmbeddingConfigurations
    /\ isEmbeddingValid = "null"
    /\ isLoading = FALSE
    /\ validateDue = TRUE
    /\ writeBackDeps = NotRun
    /\ posted = << >>
    /\ answered = {}

\* useEffect(..., [embeddingConfiguration]): runs after the first render and
\* after every render with a new configuration object
ValidateEffect ==
    /\ validateDue
    /\ Len(posted) < MaxPosts
    /\ isEmbeddingValid' = "false"
    /\ isLoading' = TRUE
    /\ posted' = Append(posted, validateEmbeddingKey(embeddingConfiguration))
    /\ validateDue' = FALSE
    /\ UNCHANGED <<embeddingConfiguration, writeBackDeps, answered, translatorVars>>

handleInputChange(field, value) ==
    LET newEmbeddingConfiguration == spread(embeddingConfiguration, field, value) IN
    /\ Len(posted) < MaxPosts
    /\ embeddingConfiguration' = newEmbeddingConfiguration
    /\ validateDue' = TRUE
    /\ isEmbeddingValid' = "false"
    /\ isLoading' = TRUE
    /\ posted' = Append(posted, validateEmbeddingKey(newEmbeddingConfiguration))
    /\ UNCHANGED <<writeBackDeps, answered, translatorVars>>

InputChange ==
    \E field \in Fields : \E value \in ValuesOf(field) :
        handleInputChange(field, value)

handleApiKey(message) ==
    IF message.type = "embeddingValidation"
    THEN /\ isEmbeddingValid' = IF message.text = "valid" THEN "true" ELSE "false"
         /\ isLoading' = FALSE
    ELSE UNCHANGED <<isEmbeddingValid, isLoading>>

\* a message of the extension arrives: useEvent("message", handleApiKey)
MessageEvent ==
    \E message \in ExtensionMessages :
        /\ handleApiKey(message)
        /\ answered' = IF message.type = "embeddingValidation"
                       THEN answered \cup {message}
                       ELSE answered
        /\ UNCHANGED <<embeddingConfiguration, validateDue, writeBackDeps, posted,
                       translatorVars>>

\* useEffect(..., [selectedModelId, selectedProvider]): runs after the first
\* render and after every render that selects another provider or model
WriteBackDue == writeBackDeps # normalizeEmbeddingConfiguration(embeddingConfiguration)

WriteBackEffect ==
    LET selected == normalizeEmbeddingConfiguration(embeddingConfiguration) IN
    /\ WriteBackDue
    /\ embeddingConfiguration' =
          spread(spread(embeddingConfiguration, "provider", selected.selectedProvider),
                 "modelId", selected.selectedModelId)
    /\ validateDue' = TRUE
    /\ writeBackDeps' = selected
    /\ UNCHANGED <<isEmbeddingValid, isLoading, posted, answered, translatorVars>>

NextEmbedding == ValidateEffect \/ InputChange \/ MessageEvent \/ WriteBackEffect

SpecEmbedding == InitEmbedding /\ [][NextEmbedding]_vars

----------------------------------------------------------------------------
(* C13 *)

LatestRequest == Len(posted)

\* the configuration posted last was answered "valid"
LatestConfigurationAnsweredValid ==
    \E message \in answered :
        /\ message.text = "valid"
        /\ posted[message.request].embeddingConfiguration
              = posted[LatestRequest].embeddingConfiguration

\* not loading and shown as valid only if the configuration posted last was
\* answered "valid"
ValidIsLatest ==
    (~isLoading /\ isEmbeddingValid = "true") =>
        LatestRequest > 0 /\ LatestConfigurationAnsweredValid

\* loading as long as the request posted last is unanswered
LoadingUntilAnswered == LatestRequest \in Unanswered => isLoading

\* C13: after any interleaving of configuration edits and validation
\* responses, whenever the component is not loading and shows the
\* configuration as valid, the configuration posted last is one that was
\* answered "valid"; and the component is loading as long as the request
\* posted last is unanswered.
C13_LatestRequestDecides == ValidIsLatest /\ LoadingUntilAnswered

----------------------------------------------------------------------------
(* C14 *)

\* the configuration with a selection written into provider and modelId
WrittenBack(config, selected) ==
    [ field \in DOMAIN config \cup {"provider", "modelId"} |->
        IF field = "provider" THEN selected.selectedProvider
        ELSE IF field = "modelId" THEN selected.selectedModelId
        ELSE config[field] ]

\* the configuration carries the selection the write-back effect last ran for
CarriesWrittenBack ==
    /\ writeBackDeps # NotRun
    /\ embeddingConfiguration
          = WrittenBack(embeddingConfiguration, writeBackDeps)

\* C14: normalizing the configuration, writing the selected provider and
\* model id back into it and normalizing again selects the same provider and
\* model id; so while the configuration carries what the write-back effect
\* wrote, the effect is not due again.
C14_NormalizeIdempotent ==
    LET selected == normalizeEmbeddingConfiguration(embeddingConfiguration) IN
    /\ normalizeEmbeddingConfiguration(WrittenBack(embeddingConfiguration, selected))
          = selected
    /\ CarriesWrittenBack => ~WriteBackDue

\* the component was mounted with no provider and a model id that is in no
\* catalog, and the write-back effect has replaced them by the default
\* provider and its default model
C14_Witness ==
    /\ Len(posted) > 0
    /\ LET mounted == posted[1].embeddingConfiguration IN
       /\ "provider" \notin DOMAIN mounted
       /\ "modelId" \in DOMAIN mounted
       /\ mounted.modelId = "bogus"
    /\ CarriesWrittenBack
    /\ embeddingConfiguration.provider = "openai-native"
    /\ embeddingConfiguration.modelId = openAiNativeEmbeddingDefaultModelId
    /\ ~WriteBackDue

=============================================================================
